---- MODULE Spec2Model ----
(***************************************************************************)
(* beackup: a periodic pg_dump runner with a retention sweep (src/main.go). *)
(*                                                                         *)
(* One process: main loads the configuration, Start creates the output     *)
(* directory, runs performBackup once and then once per tick of a          *)
(* time.Ticker.  performBackup starts pg_dump as a child process, waits    *)
(* for it and, when it succeeded, calls cleanupOldBackups.                 *)
(*                                                                         *)
(* Time is a count of units; a calendar day is DayLen units and the unit   *)
(* is the resolution of the timestamp in an artifact's name.  The local    *)
(* clock of the host is set back once, at the end of daylight saving time. *)
(***************************************************************************)
EXTENDS Integers, Sequences, FiniteSets, TLC

\* ---------------------------------------------------------------- constants

DefaultPort == 5432
DefaultRetention == 7

\* Units of time in one calendar day.
DayLen == 2
\* The instant at which the local clock is set back, and by how much.
FallBackAt == 2
FallBackShift == 1
\* The clock stops advancing at MaxTime.
MaxTime == 2
\* The same for the long runs of SpecLong.
LongTime == 4

VARIABLES
    pc,          \* where the process is: see PcValues
    site,        \* the call of performBackup in progress: "initial" or "tick"
    config,      \* bt.config, NoConfig before it is loaded
    dirExists,   \* whether the output directory exists
    fs,          \* the output directory: entry name -> entry
    now,         \* the clock, time.Now()
    ticker,      \* the time.Ticker: [active, start]
    tickPending, \* ticker.C holds a tick (the channel's buffer is one)
    cmd,         \* the exec.Cmd of the child in progress, NoCmd otherwise
    entries,     \* cleanupOldBackups: the entries still to visit
    cutoff,      \* cleanupOldBackups: the cutoff of the sweep in progress
    log,         \* the lines written to the logger and to the standard log
    exitCode,    \* the exit status of the process, -1 while it runs
    startErr,    \* the error Start returned, "" when none
    inProgress,  \* calls of performBackup that have not returned
    dumps,       \* pg_dump invocations so far
    sweeps,      \* cleanupOldBackups invocations so far
    ticksFired,  \* ticks of the ticker so far, delivered or dropped
    ticksTaken,  \* ticks received from ticker.C so far
    listing,     \* the directory as os.ReadDir of the sweep in progress saw it
    attempted,   \* the names os.Remove was called on in the sweep in progress
    lastDump,    \* outcome of the last pg_dump: "none", "ok", "failed"
    issued       \* the start time and --file path of every pg_dump so far

vars == <<pc, site, config, dirExists, fs, now, ticker, tickPending, cmd,
          entries, cutoff, log, exitCode, startErr, inProgress, dumps, sweeps,
          ticksFired, ticksTaken, listing, attempted, lastDump, issued>>

PcValues == {"main", "start", "dumping", "cleanup", "sweeping", "newTicker",
             "waiting", "panicked", "exited"}

NoConfig == [Loaded |-> FALSE]
NoCmd == [Running |-> FALSE]
NoTicker == [active |-> FALSE, start |-> 0]

\* ------------------------------------------------------------ configuration

Passwords == {"pw1", "pw2"}
RawFormats == {"", "directory"}
RawFrequencies == {0, 1}
RawRetentions == {0, 1, -1}

\* The configuration files that parse: what yaml.Unmarshal fills Config with.
RawConfigs ==
    [Host : {""}, Port : {0}, Name : {"db"}, User : {"postgres"},
     Password : Passwords, OutputDir : {"/backups"},
     Frequency : RawFrequencies, Retention : RawRetentions,
     Format : RawFormats]

\* The configurations of the long runs: every format, named or not, with one
\* setting of the rest.
LongFormats == {"", "plain", "tar", "directory", "custom", "zip"}
LongConfigs ==
    [Host : {""}, Port : {0}, Name : {"db"}, User : {"postgres"},
     Password : {"pw1"}, OutputDir : {"/backups"}, Frequency : {1},
     Retention : {0}, Format : LongFormats]

\* loadConfig's defaults (Host, Port, Format, Retention; none for Frequency).
loadConfig(raw) ==
    [Loaded |-> TRUE,
     Host |-> IF raw.Host = "" THEN "localhost" ELSE raw.Host,
     Port |-> IF raw.Port = 0 THEN DefaultPort ELSE raw.Port,
     Name |-> raw.Name,
     User |-> raw.User,
     Password |-> raw.Password,
     OutputDir |-> raw.OutputDir,
     Frequency |-> raw.Frequency,
     Retention |-> IF raw.Retention = 0 THEN DefaultRetention ELSE raw.Retention,
     Format |-> IF raw.Format = "" THEN "custom" ELSE raw.Format]

\* ----------------------------------------------------------- artifact names

\* time.Now() is a time of the Local zone: what its clock shows at instant t.
Wall(t) == IF t >= FallBackAt THEN t - FallBackShift ELSE t

\* time.Format("2006-01-02_15-04-05"): the date, then the time of day, both
\* of the local clock.
Timestamp(t) == <<Wall(t) \div DayLen, Wall(t) % DayLen>>

\* ExtensionOf without the case of tar.
ExtensionOfNoTar(format) ==
    CASE format = "plain" -> ".sql"
      [] format = "directory" -> ""
      [] OTHER -> ".dump"

\* The switch of performBackup on the format.
ExtensionOf(format) ==
    CASE format = "plain" -> ".sql"
      [] format = "tar" -> ".tar"
      [] format = "directory" -> ""
      [] OTHER -> ".dump"

\* fmt.Sprintf("%s_%s%s", name, timestamp, extension)
Filename(c, t) ==
    <<c.Name, Timestamp(t)[1], Timestamp(t)[2], ExtensionOf(c.Format)>>

\* filepath.Join(dir, name)
JoinPath(dir, name) == <<dir, name>>

\* ------------------------------------------------------------ pg_dump command

\* The switch of buildPgDumpCommand on the format.
FormatFlag(format) ==
    CASE format = "plain" -> "--format=plain"
      [] format = "tar" -> "--format=tar"
      [] format = "directory" -> "--format=directory"
      [] OTHER -> "--format=custom"

\* fmt.Sprintf("%d", port)
PortString(p) == <<"%d", p>>

\* buildPgDumpCommand with the password passed as an argument.
buildPgDumpCommandWithPassword(c, outputPath) ==
    <<"pg_dump", "-h", c.Host, "-p", PortString(c.Port), "-U", c.User,
      "-d", c.Name, "--verbose", <<"--password", c.Password>>,
      FormatFlag(c.Format), "--file", outputPath>>

\* The argument list of exec.Command, args[0] first.
buildPgDumpCommand(c, outputPath) ==
    <<"pg_dump", "-h", c.Host, "-p", PortString(c.Port), "-U", c.User,
      "-d", c.Name, "--verbose", "--no-password",
      FormatFlag(c.Format), "--file", outputPath>>

\* os.Environ() of the backup process.
Environ == << <<"PATH", "/usr/bin">> >>

\* cmd.Env: the process environment with PGPASSWORD appended.
CmdEnv(c) == Append(Environ, <<"PGPASSWORD", c.Password>>)

\* The log line "Running: " + cmd.String(): the arguments joined.
RunningLine(args) == <<"Running", args>>

\* The exec.Cmd performBackup builds at time t.
MakeCmd(c, t) ==
    [Running |-> TRUE,
     path |-> JoinPath(c.OutputDir, Filename(c, t)),
     args |-> buildPgDumpCommand(c, JoinPath(c.OutputDir, Filename(c, t))),
     env |-> CmdEnv(c)]

\* ------------------------------------------------------------- file system

\* Modification times of the files found in the directory at start-up, around
\* the cutoffs of the retentions in RawRetentions.
OldTimes ==
    {-(DefaultRetention * DayLen) - 1, -(DefaultRetention * DayLen) + 1,
     -DayLen - 1, -DayLen + 1}

\* What the file system refuses for an entry: nothing, its lstat (Info) or
\* its unlink (Remove).
Faults == {"none", "info", "remove"}

FileEntry(m, fault) ==
    [isDir |-> FALSE, mtime |-> m, infoOk |-> fault # "info",
     removeOk |-> fault # "remove", children |-> {}]

DirEntry(m, kids) ==
    [isDir |-> TRUE, mtime |-> m, infoOk |-> TRUE, removeOk |-> TRUE,
     children |-> kids]

NameA == <<"a", 0, 0, "">>
NameB == <<"b", 0, 0, "">>
NameEmpty == <<"empty", 0, 0, "">>
NameSub == <<"sub", 0, 0, "">>

OldestTime == -(DefaultRetention * DayLen) - 1

\* The output directories the process may find: absent (empty here), or two
\* files, an empty subdirectory and a subdirectory holding a file.  The first
\* file has any of the old times and faults; the second is the oldest and its
\* lstat works.
InitialDirs ==
    {[n \in {NameA, NameB, NameEmpty, NameSub} |->
        CASE n = NameA -> FileEntry(ma, fa)
          [] n = NameB -> FileEntry(OldestTime, fb)
          [] n = NameEmpty -> DirEntry(OldestTime, {})
          [] n = NameSub -> DirEntry(OldestTime, {"inner"})] :
      ma \in OldTimes, fa \in Faults, fb \in Faults \ {"info"}}

EmptyDir == [n \in {} |-> FileEntry(0, "none")]

\* The order of file names: os.ReadDir returns the entries sorted by name.
StrRank(s) ==
    CASE s = "a" -> 1 [] s = "b" -> 2 [] s = "db" -> 3
      [] s = "empty" -> 4 [] s = "sub" -> 5 [] OTHER -> 6

NameLess(m, n) ==
    \/ StrRank(m[1]) < StrRank(n[1])
    \/ /\ StrRank(m[1]) = StrRank(n[1])
       /\ \/ m[2] < n[2]
          \/ m[2] = n[2] /\ m[3] < n[3]

RECURSIVE SortNames(_)
SortNames(S) ==
    IF S = {} THEN <<>>
    ELSE LET m == CHOOSE x \in S : \A y \in S \ {x} : NameLess(x, y)
         IN <<m>> \o SortNames(S \ {m})

\* os.ReadDir(dir): the immediate entries, sorted by name.
ReadDir(dir) == SortNames(DOMAIN dir)

\* os.Remove(path): unlink, or rmdir for a directory, which must be empty.
RemoveSucceeds(e) == e.removeOk /\ (e.isDir => e.children = {})

Without(dir, n) == [m \in DOMAIN dir \ {n} |-> dir[m]]

\* What a pg_dump that exits 0 leaves at its --file path.
Artifact(c, t) ==
    IF c.Format = "directory"
    THEN DirEntry(t, {"toc.dat"})
    ELSE FileEntry(t, "none")

\* time.Now().AddDate(0, 0, -retention)
Cutoff(t, retention) == t - retention * DayLen

\* ------------------------------------------------------------------- Init

Init ==
    /\ pc = "main"
    /\ site = "initial"
    /\ config = NoConfig
    /\ \/ dirExists = FALSE /\ fs = EmptyDir
       \/ dirExists = TRUE /\ fs \in InitialDirs
    /\ now = 0
    /\ ticker = NoTicker
    /\ tickPending = FALSE
    /\ cmd = NoCmd
    /\ entries = <<>>
    /\ cutoff = 0
    /\ log = {}
    /\ exitCode = -1
    /\ startErr = ""
    /\ inProgress = 0
    /\ dumps = 0
    /\ sweeps = 0
    /\ ticksFired = 0
    /\ ticksTaken = 0
    /\ listing = EmptyDir
    /\ attempted = {}
    /\ lastDump = "none"
    /\ issued = <<>>

\* ------------------------------------------------------------------- main

\* main without its argument: usage, exit 1.
MainUsage ==
    /\ pc = "main"
    /\ pc' = "exited"
    /\ exitCode' = 1
    /\ log' = log \cup {<<"Usage", <<>>>>}
    /\ issued' = issued
    /\ UNCHANGED <<site, config, dirExists, fs, now, ticker, tickPending, cmd,
                   entries, cutoff, startErr, inProgress, dumps, sweeps,
                   ticksFired, ticksTaken, listing, attempted, lastDump>>

\* MainConfigFails with the error only logged (log.Printf) and the tool built
\* from an empty configuration.
MainConfigFailsGoesOn ==
    /\ pc = "main"
    /\ config' = loadConfig(CHOOSE raw \in RawConfigs : TRUE)
    /\ pc' = "start"
    /\ log' = log \cup {<<"Failed to create backup tool", <<>>>>}
    /\ issued' = issued
    /\ UNCHANGED <<site, dirExists, fs, now, ticker, tickPending, cmd, entries,
                   cutoff, exitCode, startErr, inProgress, dumps, sweeps,
                   ticksFired, ticksTaken, listing, attempted, lastDump>>

\* NewBackupTool fails (the file is unreadable or does not parse): log.Fatalf.
MainConfigFails ==
    /\ pc = "main"
    /\ pc' = "exited"
    /\ exitCode' = 1
    /\ log' = log \cup {<<"Failed to create backup tool", <<>>>>}
    /\ issued' = issued
    /\ UNCHANGED <<site, config, dirExists, fs, now, ticker, tickPending, cmd,
                   entries, cutoff, startErr, inProgress, dumps, sweeps,
                   ticksFired, ticksTaken, listing, attempted, lastDump>>

\* NewBackupTool succeeds with the configuration file `raw`; main goes on to
\* call Start.
Loads(raw) ==
    /\ pc = "main"
    /\ config' = loadConfig(raw)
    /\ pc' = "start"
    /\ issued' = issued
    /\ UNCHANGED <<site, dirExists, fs, now, ticker, tickPending, cmd, entries,
                   cutoff, log, exitCode, startErr, inProgress, dumps, sweeps,
                   ticksFired, ticksTaken, listing, attempted, lastDump>>

MainLoadsLong == \E raw \in LongConfigs : Loads(raw)

\* NewBackupTool succeeds; main goes on to call Start.
MainLoads ==
    /\ pc = "main"
    /\ \E raw \in RawConfigs : config' = loadConfig(raw)
    /\ pc' = "start"
    /\ issued' = issued
    /\ UNCHANGED <<site, dirExists, fs, now, ticker, tickPending, cmd, entries,
                   cutoff, log, exitCode, startErr, inProgress, dumps, sweeps,
                   ticksFired, ticksTaken, listing, attempted, lastDump>>

\* ------------------------------------------------------------ performBackup

\* performBackup up to the start of the child: name, command, environment.
BeginBackup(s) ==
    /\ site' = s
    /\ cmd' = MakeCmd(config, now)
    /\ issued' = Append(issued, [at |-> now, path |-> MakeCmd(config, now).path])
    /\ dumps' = dumps + 1
    /\ inProgress' = inProgress + 1
    /\ pc' = "dumping"

\* The lines performBackup logs before it starts the child.
BackupLines ==
    {<<"Starting backup...", <<>>>>, RunningLine(MakeCmd(config, now).args)}

\* Where Start goes on when the call of performBackup at `s` returns.
AfterBackup(s) == IF s = "initial" THEN "newTicker" ELSE "waiting"

\* The line Start logs when performBackup returns an error.
FailureLine(s) ==
    IF s = "initial" THEN <<"Initial backup failed", <<>>>>
    ELSE <<"Backup failed", <<>>>>

\* ------------------------------------------------------------------ Start

\* StartMkdirFails with the error logged and Start going on to the backup.
StartMkdirContained ==
    /\ pc = "start"
    /\ ~dirExists
    /\ BeginBackup("initial")
    /\ log' = log \cup {<<"Starting backup tool...", <<>>>>} \cup BackupLines
    /\ UNCHANGED <<config, dirExists, fs, now, ticker, tickPending, entries,
                   cutoff, exitCode, startErr, sweeps, ticksFired, ticksTaken,
                   listing, attempted, lastDump>>

\* Start: os.MkdirAll fails, Start returns the error, main returns.
StartMkdirFails ==
    /\ pc = "start"
    /\ ~dirExists
    /\ startErr' = "failed to create output directory"
    /\ log' = log \cup {<<"Starting backup tool...", <<>>>>}
    /\ pc' = "exited"
    /\ exitCode' = 0
    /\ issued' = issued
    /\ UNCHANGED <<site, config, dirExists, fs, now, ticker, tickPending, cmd,
                   entries, cutoff, inProgress, dumps, sweeps, ticksFired,
                   ticksTaken, listing, attempted, lastDump>>

\* StartBegins without the initial backup: straight to the ticker.
StartBeginsAtTicker ==
    /\ pc = "start"
    /\ dirExists' = TRUE
    /\ log' = log \cup {<<"Starting backup tool...", <<>>>>}
    /\ pc' = "newTicker"
    /\ issued' = issued
    /\ UNCHANGED <<site, config, fs, now, ticker, tickPending, cmd, entries,
                   cutoff, exitCode, startErr, inProgress, dumps, sweeps,
                   ticksFired, ticksTaken, listing, attempted, lastDump>>

\* Start: os.MkdirAll succeeds, then the initial performBackup begins.
StartBegins ==
    /\ pc = "start"
    /\ dirExists' = TRUE
    /\ BeginBackup("initial")
    /\ log' = log \cup {<<"Starting backup tool...", <<>>>>} \cup BackupLines
    /\ UNCHANGED <<config, fs, now, ticker, tickPending, entries, cutoff,
                   exitCode, startErr, sweeps, ticksFired, ticksTaken, listing,
                   attempted, lastDump>>

\* time.NewTicker(frequency): it panics when the duration is not positive.
NewTicker ==
    /\ pc = "newTicker"
    /\ IF config.Frequency <= 0
       THEN /\ pc' = "panicked"
            /\ exitCode' = 2
            /\ ticker' = ticker
       ELSE /\ pc' = "waiting"
            /\ exitCode' = exitCode
            /\ ticker' = [active |-> TRUE, start |-> now]
    /\ issued' = issued
    /\ UNCHANGED <<site, config, dirExists, fs, now, tickPending, cmd, entries,
                   cutoff, log, startErr, inProgress, dumps, sweeps, ticksFired,
                   ticksTaken, listing, attempted, lastDump>>

\* ReceiveTick with the loop body not awaited (go bt.performBackup()): a tick
\* is taken while the previous call is still in progress.
ReceiveTickAsync ==
    /\ pc \in {"waiting", "dumping"}
    /\ tickPending
    /\ tickPending' = FALSE
    /\ ticksTaken' = ticksTaken + 1
    /\ BeginBackup("tick")
    /\ log' = log \cup BackupLines
    /\ UNCHANGED <<config, dirExists, fs, now, ticker, entries, cutoff,
                   exitCode, startErr, sweeps, ticksFired, listing, attempted,
                   lastDump>>

\* ReceiveTick with the tick left in the channel.
ReceiveTickKeepsTick ==
    /\ pc = "waiting"
    /\ tickPending
    /\ tickPending' = tickPending
    /\ ticksTaken' = ticksTaken + 1
    /\ BeginBackup("tick")
    /\ log' = log \cup BackupLines
    /\ UNCHANGED <<config, dirExists, fs, now, ticker, entries, cutoff,
                   exitCode, startErr, sweeps, ticksFired, listing, attempted,
                   lastDump>>

\* for range ticker.C: a tick is received and the loop body calls
\* performBackup.
ReceiveTick ==
    /\ pc = "waiting"
    /\ tickPending
    /\ tickPending' = FALSE
    /\ ticksTaken' = ticksTaken + 1
    /\ BeginBackup("tick")
    /\ log' = log \cup BackupLines
    /\ UNCHANGED <<config, dirExists, fs, now, ticker, entries, cutoff,
                   exitCode, startErr, sweeps, ticksFired, listing, attempted,
                   lastDump>>

\* ----------------------------------------------------------- the child ends

\* DumpFails with the error treated as fatal (log.Fatalf in Start).
DumpFailsFatal ==
    /\ pc = "dumping"
    /\ lastDump' = "failed"
    /\ log' = log \cup {FailureLine(site)}
    /\ cmd' = NoCmd
    /\ inProgress' = inProgress - 1
    /\ pc' = "exited"
    /\ exitCode' = 1
    /\ issued' = issued
    /\ UNCHANGED <<site, config, dirExists, fs, now, ticker, tickPending,
                   entries, cutoff, startErr, dumps, sweeps, ticksFired,
                   ticksTaken, listing, attempted>>

\* cmd.CombinedOutput returns an error: performBackup returns it without
\* calling cleanupOldBackups, and Start logs it.  The child may leave a
\* partial artifact behind.
DumpFails ==
    /\ pc = "dumping"
    /\ \E partial \in BOOLEAN :
         fs' = IF partial /\ cmd.path[2] \notin DOMAIN fs
               THEN (cmd.path[2] :> Artifact(config, now)) @@ fs
               ELSE fs
    /\ lastDump' = "failed"
    /\ log' = log \cup {FailureLine(site)}
    /\ cmd' = NoCmd
    /\ inProgress' = inProgress - 1
    /\ pc' = AfterBackup(site)
    /\ issued' = issued
    /\ UNCHANGED <<site, config, dirExists, now, ticker, tickPending, entries,
                   cutoff, exitCode, startErr, dumps, sweeps, ticksFired,
                   ticksTaken, listing, attempted>>

\* cmd.CombinedOutput returns nil: the artifact exists; performBackup goes on
\* to cleanupOldBackups.  pg_dump refuses to write a directory that exists.
DumpSucceeds ==
    /\ pc = "dumping"
    /\ ~(config.Format = "directory" /\ cmd.path[2] \in DOMAIN fs)
    /\ fs' = (cmd.path[2] :> Artifact(config, now)) @@ fs
    /\ lastDump' = "ok"
    /\ log' = log \cup {<<"Backup completed successfully", cmd.path>>}
    /\ cmd' = NoCmd
    /\ pc' = "cleanup"
    /\ issued' = issued
    /\ UNCHANGED <<site, config, dirExists, now, ticker, tickPending, entries,
                   cutoff, exitCode, startErr, inProgress, dumps, sweeps,
                   ticksFired, ticksTaken, listing, attempted>>

\* -------------------------------------------------------- cleanupOldBackups

\* os.ReadDir fails: cleanupOldBackups returns the error, performBackup logs
\* a warning and returns nil.
CleanupReadDirFails ==
    /\ pc = "cleanup"
    /\ sweeps' = sweeps + 1
    /\ log' = log \cup {<<"Warning: Failed to cleanup old backups", <<>>>>}
    /\ inProgress' = inProgress - 1
    /\ pc' = AfterBackup(site)
    /\ issued' = issued
    /\ UNCHANGED <<site, config, dirExists, fs, now, ticker, tickPending, cmd,
                   entries, cutoff, exitCode, startErr, dumps, ticksFired,
                   ticksTaken, listing, attempted, lastDump>>

\* os.ReadDir succeeds and the cutoff is computed.
CleanupListing ==
    /\ pc = "cleanup"
    /\ sweeps' = sweeps + 1
    /\ entries' = ReadDir(fs)
    /\ listing' = fs
    /\ attempted' = {}
    /\ cutoff' = Cutoff(now, config.Retention)
    /\ pc' = "sweeping"
    /\ issued' = issued
    /\ UNCHANGED <<site, config, dirExists, fs, now, ticker, tickPending, cmd,
                   log, exitCode, startErr, inProgress, dumps, ticksFired,
                   ticksTaken, lastDump>>

\* Eligible without the IsDir test.
EligibleWithDirs(e, c) == e.infoOk /\ e.mtime < c

\* Eligible with the boundary included (not After instead of Before).
EligibleAtCutoff(e, c) == ~e.isDir /\ e.infoOk /\ e.mtime <= c

\* Eligible with the comparison turned round (After instead of Before).
EligibleNewer(e, c) == ~e.isDir /\ e.infoOk /\ e.mtime > c

\* Whether the loop body of cleanupOldBackups calls os.Remove on entry e.
Eligible(e, c) == ~e.isDir /\ e.infoOk /\ e.mtime < c

\* SweepEntry returning at the first os.Remove that fails.
SweepEntryAborts ==
    /\ pc = "sweeping"
    /\ entries # <<>>
    /\ LET n == Head(entries)
           e == fs[n]
           path == JoinPath(config.OutputDir, n)
       IN IF Eligible(e, cutoff)
          THEN /\ attempted' = attempted \cup {n}
               /\ IF RemoveSucceeds(e)
                  THEN /\ fs' = Without(fs, n)
                       /\ log' = log \cup {<<"Removed old backup", path>>}
                       /\ entries' = Tail(entries)
                  ELSE /\ fs' = fs
                       /\ log' = log \cup {<<"Failed to remove old backup", path>>}
                       /\ entries' = <<>>
          ELSE /\ UNCHANGED <<attempted, fs, log>>
               /\ entries' = Tail(entries)
    /\ issued' = issued
    /\ UNCHANGED <<pc, site, config, dirExists, now, ticker, tickPending, cmd,
                   cutoff, exitCode, startErr, inProgress, dumps, sweeps,
                   ticksFired, ticksTaken, listing, lastDump>>

\* One iteration of the loop over the entries.
SweepEntry ==
    /\ pc = "sweeping"
    /\ entries # <<>>
    /\ LET n == Head(entries)
           e == fs[n]
           path == JoinPath(config.OutputDir, n)
       IN IF Eligible(e, cutoff)
          THEN /\ attempted' = attempted \cup {n}
               /\ IF RemoveSucceeds(e)
                  THEN /\ fs' = Without(fs, n)
                       /\ log' = log \cup {<<"Removed old backup", path>>}
                  ELSE /\ fs' = fs
                       /\ log' = log \cup {<<"Failed to remove old backup", path>>}
          ELSE UNCHANGED <<attempted, fs, log>>
    /\ entries' = Tail(entries)
    /\ issued' = issued
    /\ UNCHANGED <<pc, site, config, dirExists, now, ticker, tickPending, cmd,
                   cutoff, exitCode, startErr, inProgress, dumps, sweeps,
                   ticksFired, ticksTaken, listing, lastDump>>

\* The loop is over: cleanupOldBackups and performBackup return nil, and the
\* locals of the sweep are gone.
SweepDone ==
    /\ pc = "sweeping"
    /\ entries = <<>>
    /\ inProgress' = inProgress - 1
    /\ pc' = AfterBackup(site)
    /\ listing' = EmptyDir
    /\ attempted' = {}
    /\ cutoff' = 0
    /\ issued' = issued
    /\ UNCHANGED <<site, config, dirExists, fs, now, ticker, tickPending, cmd,
                   entries, log, exitCode, startErr, dumps, sweeps,
                   ticksFired, ticksTaken, lastDump>>

\* -------------------------------------------------------------------- time

\* Whether the ticker fires at time t.
TickAt(t) ==
    /\ ticker.active
    /\ t > ticker.start
    /\ (t - ticker.start) % config.Frequency = 0

\* Time passes where the process blocks: on the child and on ticker.C.  A
\* tick that finds ticker.C full is dropped.
AdvanceTo(limit) ==
    /\ pc \in {"dumping", "waiting"}
    /\ now < limit
    /\ now' = now + 1
    /\ IF TickAt(now + 1)
       THEN tickPending' = TRUE /\ ticksFired' = ticksFired + 1
       ELSE UNCHANGED <<tickPending, ticksFired>>
    /\ issued' = issued
    /\ UNCHANGED <<pc, site, config, dirExists, fs, ticker, cmd, entries,
                   cutoff, log, exitCode, startErr, inProgress, dumps, sweeps,
                   ticksTaken, listing, attempted, lastDump>>

Advance == AdvanceTo(MaxTime)

AdvanceLong == AdvanceTo(LongTime)

Next ==
    \/ MainUsage
    \/ MainConfigFails
    \/ MainLoads
    \/ StartMkdirFails
    \/ StartBegins
    \/ NewTicker
    \/ ReceiveTick
    \/ DumpFails
    \/ DumpSucceeds
    \/ CleanupReadDirFails
    \/ CleanupListing
    \/ SweepEntry
    \/ SweepDone
    \/ Advance

Spec == Init /\ [][Next]_vars

\* The long runs: the directory is absent at start-up, the configuration is
\* one of LongConfigs and loads, and the clock runs to LongTime.
InitLong == Init /\ ~dirExists

NextLong ==
    \/ MainLoadsLong
    \/ StartMkdirFails
    \/ StartBegins
    \/ NewTicker
    \/ ReceiveTick
    \/ DumpFails
    \/ DumpSucceeds
    \/ CleanupReadDirFails
    \/ CleanupListing
    \/ SweepEntry
    \/ SweepDone
    \/ AdvanceLong

SpecLong == InitLong /\ [][NextLong]_vars

\* ================================================================= claims

\* The sweep in progress has visited every entry of its listing.
SweepOver == pc = "sweeping" /\ entries = <<>>

WarningLine == <<"Warning: Failed to cleanup old backups", <<>>>>

\* C1: in every cycle the sweep runs after the dump whatever the dump's
\* outcome: when no cycle is in progress, as many sweeps as dumps have run.
C1_SweepAfterEveryDump == inProgress = 0 => sweeps = dumps

\* C2: at most one cycle is in progress, and a dump is invoked only when the
\* previous call of performBackup (dump and sweep) has returned.
C2_NoOverlap ==
    /\ [](inProgress <= 1)
    /\ [][dumps' > dumps => inProgress = 0 /\ cmd = NoCmd /\ entries = <<>>]_vars

\* C2 witness: a tick fired while a cycle started by a tick is still running.
C2_Witness == pc = "dumping" /\ site = "tick" /\ tickPending /\ dumps >= 2

\* C3 as stated: at the end of a sweep a non-directory entry of the listing is
\* gone if and only if it is strictly older than the cutoff and its removal
\* is one that succeeds.
C3_DeletedIffOlder ==
    SweepOver =>
        \A n \in DOMAIN listing :
            ~listing[n].isDir =>
                (n \notin DOMAIN fs
                    <=> listing[n].mtime < cutoff /\ listing[n].removeOk)

\* C3 amended: the same for the entries whose file information can be read;
\* an entry whose file information cannot be read is kept.
C3_DeletedIffOlderAndReadable ==
    SweepOver =>
        \A n \in DOMAIN listing :
            ~listing[n].isDir =>
                /\ listing[n].infoOk =>
                       (n \notin DOMAIN fs
                           <=> listing[n].mtime < cutoff /\ listing[n].removeOk)
                /\ ~listing[n].infoOk => n \in DOMAIN fs

\* C3 witness: a sweep kept a removable file whose time is the cutoff itself
\* and deleted an older one.
C3_Witness ==
    /\ SweepOver
    /\ NameA \in DOMAIN listing /\ NameB \in DOMAIN listing
    /\ listing[NameA].mtime = cutoff
    /\ listing[NameA].infoOk /\ listing[NameA].removeOk
    /\ NameA \in DOMAIN fs
    /\ NameB \notin DOMAIN fs

\* C4: a failed dump, initial or not, does not end the loop: Start logs it and
\* goes on where it goes on after a success, and a tick that arrives after a
\* failure starts a cycle that invokes the dump again.
C4_FailedDumpContained ==
    /\ [][(pc = "dumping" /\ pc' # "dumping" /\ lastDump' = "failed")
            => /\ pc' = IF site = "initial" THEN "newTicker" ELSE "waiting"
               /\ exitCode' = -1
               /\ FailureLine(site) \in log']_vars
    /\ [][(lastDump = "failed" /\ ticksTaken' > ticksTaken)
            => pc' = "dumping" /\ dumps' = dumps + 1]_vars
    /\ []((lastDump = "failed" /\ pc = "waiting" /\ tickPending)
            => ENABLED ReceiveTick)

\* C4 witness: the dump is running again in a tick's cycle after a failed dump.
C4_Witness ==
    /\ pc = "dumping" /\ site = "tick" /\ lastDump = "failed"
    /\ <<"Backup failed", <<>>>> \in log

\* C5 as stated: at the end of a sweep os.Remove has been called on every
\* non-directory entry older than the cutoff, and no step of the sweep reports
\* an error.
C5_EveryOldEntryAttempted ==
    SweepOver =>
        \A n \in DOMAIN listing :
            (~listing[n].isDir /\ listing[n].mtime < cutoff) => n \in attempted

\* C5 amended: os.Remove has been called on every non-directory entry whose
\* file information can be read and that is older than the cutoff, whatever
\* became of the earlier removals, and no step of the sweep logs the warning
\* of a failed sweep.
C5_EveryReadableOldEntryAttempted ==
    /\ [](SweepOver =>
            \A n \in DOMAIN listing :
                (~listing[n].isDir /\ listing[n].infoOk
                    /\ listing[n].mtime < cutoff) => n \in attempted)
    /\ [][pc = "sweeping" => (WarningLine \in log' => WarningLine \in log)]_vars

\* C5 witness: the removal of the first file failed and the second file was
\* removed in the same sweep.
C5_Witness ==
    /\ SweepOver
    /\ NameA \in attempted /\ NameA \in DOMAIN fs
    /\ NameB \in attempted /\ NameB \notin DOMAIN fs

\* C6: no step removes or changes a directory of the output directory or what
\* it holds.
C6_DirectoriesKept ==
    [][\A n \in DOMAIN fs :
          fs[n].isDir => (n \in DOMAIN fs' /\ fs'[n] = fs[n])]_vars

\* C6 witness: a sweep that removed a file is over, and the subdirectories
\* older than its cutoff, the empty one too, are there.
C6_Witness ==
    /\ SweepOver
    /\ NameB \notin DOMAIN fs
    /\ NameEmpty \in DOMAIN fs /\ fs[NameEmpty].mtime < cutoff
    /\ NameSub \in DOMAIN fs /\ fs[NameSub].children = {"inner"}

\* C7: the arguments of the child and the "Running:" line are the same for
\* every password the configuration could hold; the environment is not.
C7_PasswordOnlyInEnv ==
    cmd.Running =>
        /\ cmd.env = CmdEnv(config)
        /\ \A pw \in Passwords :
             LET other == [config EXCEPT !.Password = pw]
             IN /\ buildPgDumpCommand(other, cmd.path) = cmd.args
                /\ RunningLine(buildPgDumpCommand(other, cmd.path)) \in log
                /\ (pw # config.Password => CmdEnv(other) # cmd.env)

\* C7 witness: the child runs under a configuration with the second password.
C7_Witness == cmd.Running /\ config.Password = "pw2" /\ pc = "dumping"

\* C8: once the directory exists and Start has run the initial cycle, the
\* process never stops on its own.
C8_NoTerminalState ==
    (dirExists /\ dumps >= 1) => pc \notin {"panicked", "exited"}

\* C9: the directory exists before the first dump; exactly one cycle has run,
\* and none is in progress, when Start sets up the ticker; no second cycle
\* starts before a tick is received; a failed initial cycle is logged and
\* Start does not return because of it.
C9_InitialCycle ==
    /\ dumps >= 1 => dirExists
    /\ pc = "newTicker" =>
           dumps = 1 /\ inProgress = 0 /\ ~ticker.active /\ ticksTaken = 0
    /\ dumps <= 1 + ticksTaken
    /\ ~ticker.active => dumps <= 1
    /\ (dumps = 1 /\ lastDump = "failed") =>
           /\ <<"Initial backup failed", <<>>>> \in log
           /\ pc # "exited"
           /\ startErr = ""

\* C9 witness: the loop waits for a tick after an initial cycle that failed.
C9_Witness ==
    pc = "waiting" /\ dumps = 1 /\ lastDump = "failed" /\ ticker.active

\* C10: when the directory cannot be created Start returns the error and the
\* process ends with no dump and no sweep; an error of a cycle is never
\* returned by Start.
C10_MkdirFailureFatal ==
    /\ dumps >= 1 => dirExists
    /\ startErr # "" =>
           /\ pc = "exited"
           /\ dumps = 0 /\ sweeps = 0 /\ inProgress = 0
           /\ ~dirExists /\ fs = EmptyDir
           /\ lastDump = "none"
    /\ (pc = "exited" /\ config # NoConfig) => startErr # ""

\* C10 witness: the process has ended on the error of os.MkdirAll.
C10_Witness == pc = "exited" /\ startErr # "" /\ config # NoConfig

\* C11: when the configuration cannot be loaded the process has exited with a
\* non-zero status, Start never ran, the output directory is as it was found
\* (not created), and no dump and no sweep ran.
C11_ConfigFailureExits ==
    <<"Failed to create backup tool", <<>>>> \in log =>
        /\ pc = "exited"
        /\ exitCode > 0
        /\ config = NoConfig
        /\ <<"Starting backup tool...", <<>>>> \notin log
        /\ dumps = 0 /\ sweeps = 0 /\ inProgress = 0
        /\ IF dirExists THEN fs \in InitialDirs ELSE fs = EmptyDir

\* C11 witness: the process has exited on a configuration that did not load,
\* and the output directory, absent before, is absent.
C11_Witness ==
    /\ <<"Failed to create backup tool", <<>>>> \in log
    /\ pc = "exited"
    /\ ~dirExists

\* C12: for every format the extension of the artifact and the arguments of
\* the child are those of the table: one --format flag that agrees with the
\* extension, and one --file flag with the path.
C12_FormatMapping ==
    cmd.Running =>
        LET f == config.Format
            ext == CASE f = "plain" -> ".sql"
                     [] f = "tar" -> ".tar"
                     [] f = "directory" -> ""
                     [] f = "custom" -> ".dump"
                     [] OTHER -> ".dump"
            flag == CASE f = "plain" -> "--format=plain"
                      [] f = "tar" -> "--format=tar"
                      [] f = "directory" -> "--format=directory"
                      [] f = "custom" -> "--format=custom"
                      [] OTHER -> "--format=custom"
        IN /\ cmd.path[2][4] = ext
           /\ cmd.args = <<"pg_dump", "-h", config.Host,
                           "-p", PortString(config.Port), "-U", config.User,
                           "-d", config.Name, "--verbose", "--no-password",
                           flag, "--file", cmd.path>>

\* C12 witness: the child runs for a format that is none of the four, with the
\* extension and the flag of custom.
C12_Witness ==
    /\ cmd.Running
    /\ config.Format = "zip"
    /\ cmd.path[2][4] = ".dump"
    /\ cmd.args[12] = "--format=custom"

\* The file name of the i-th pg_dump.
IssuedName(i) == issued[i].path[2]

\* C13: of two dumps started in different seconds, the earlier has the
\* lexicographically smaller name.
C13_NamesSortByTime ==
    \A i, j \in 1..Len(issued) :
        issued[i].at < issued[j].at => NameLess(IssuedName(i), IssuedName(j))

\* C14: no two dump invocations are given the same output path.
C14_PathsDistinct ==
    \A i, j \in 1..Len(issued) : i # j => issued[i].path # issued[j].path

\* C15: when the sweep that follows a successful dump is over, the artifact
\* that dump has written is in the directory.
C15_ArtifactSurvivesItsCycle ==
    (SweepOver /\ issued # <<>>) => IssuedName(Len(issued)) \in DOMAIN fs

\* C16: a step of the sweep removes entries only, leaves every directory and
\* every entry that is not strictly older than the cutoff as it is, and leaves
\* the configuration and the directory itself alone; no other step removes an
\* entry.
C16_SweepFrame ==
    [][/\ pc = "sweeping" =>
            /\ DOMAIN fs' \subseteq DOMAIN fs
            /\ \A n \in DOMAIN fs' : fs'[n] = fs[n]
            /\ \A n \in DOMAIN fs :
                   (fs[n].isDir \/ fs[n].mtime >= cutoff) => n \in DOMAIN fs'
            /\ config' = config
            /\ dirExists' = dirExists
       /\ pc # "sweeping" => DOMAIN fs \subseteq DOMAIN fs']_vars

\* C16 witness: a sweep that removed the oldest file is over, and a file at
\* or after the cutoff is there as it was listed.
C16_Witness ==
    /\ SweepOver
    /\ NameB \in DOMAIN listing /\ NameB \notin DOMAIN fs
    /\ NameA \in DOMAIN fs
    /\ listing[NameA].infoOk /\ listing[NameA].removeOk
    /\ listing[NameA].mtime >= cutoff
    /\ fs[NameA] = listing[NameA]

\* C17: ticks are not queued: every cycle but the first takes one tick, no more
\* ticks are taken than have fired, the cycles started are at most one plus
\* the ticks fired, and no two cycles start at the same instant, so one cycle
\* at most catches up when a cycle that overran ends.
C17_TicksNotQueued ==
    /\ ticksTaken <= ticksFired
    /\ dumps <= 1 + ticksFired
    /\ dumps = (IF dumps > 0 THEN 1 ELSE 0) + ticksTaken
    /\ \A i, j \in 1..Len(issued) : i < j => issued[i].at < issued[j].at

\* C17 witness: a cycle overran two ticks, the second was dropped, and the one
\* catch-up cycle has started.
C17_Witness ==
    /\ pc = "dumping" /\ site = "tick"
    /\ ~tickPending
    /\ ticksFired > ticksTaken
    /\ Len(issued) >= 3
    /\ issued[Len(issued)].at >= issued[Len(issued) - 1].at + 2

====
